---- MODULE Spec2Model ----
(***************************************************************************)
(* Model of the mahi-fes Stimulator facade (src/src/Mahi/Fes/Core/         *)
(* Stimulator.cpp) driving a Scheduler (include/Mahi/Fes/Core/             *)
(* Scheduler.hpp) over a serial transport.                                 *)
(*                                                                         *)
(* The serial transport (CreateFileW, Get/SetCommState, WriteFile,         *)
(* ReadFile, CloseHandle) is the environment: every call's outcome is a    *)
(* nondeterministic choice.  Scheduler, Channel and wait_for_message are    *)
(* modelled from sections 4.2 and 4.4 of the design specification: only    *)
(* their declarations and their callers are in the sources.                *)
(*                                                                         *)
(* Every public operation records what it did in `last`: its name, its     *)
(* return value, the transport calls it made in order (`io`) and the log   *)
(* levels it emitted.                                                      *)
(***************************************************************************)
EXTENDS Integers, Sequences, FiniteSets, TLC

\* ---- bounds of the model ------------------------------------------------
NumChannels == 2    \* channels handed to the constructor (named 1..NumChannels)
MaxEvents   == 2    \* cap on the number of Events registered in the Scheduler
MaxVal      == 1    \* amplitudes, pulse widths and maxima range over 0..MaxVal
MaxId       == 1    \* bytes a scheduler id can take: 0..MaxId
MaxDrain    == 1    \* bytes the device may have queued when read_all drains
MaxBatch    == 2    \* longest channel list handed to add_events
MaxOps      == 4    \* operations the caller performs after construction
MaxStages   == 2    \* values staged between update() calls beside a reader thread
MaxFrameLen == 4    \* longest frame handed to checksum / write_message
MaxTwoBytesInput == 65536   \* int_to_twobytes is applied to 0..MaxTwoBytesInput

Vals     == 0..MaxVal
IdVals   == 0..MaxId
ChanArgs == 1..(NumChannels + 1)   \* Channel arguments; NumChannels+1 is a
                                   \* Channel that is not in the Stimulator's list
EventChans == 1..NumChannels       \* Channels that events are registered for

Min(a, b) == IF a < b THEN a ELSE b

VARIABLES
    phase,            \* "live" | "destroyed" | "crashed" (process aborted by UB)
    enabled,          \* Stimulator::enabled
    hComm,            \* Stimulator::hComm: "INVALID" | "OPEN" | "CLOSED"
    leaked,           \* an open handle to the port that hComm no longer stores
    board_init,       \* every channel's setup frame was written on the open handle
    channels,         \* Stimulator::channels: Seq of [name, max_amp, max_pw]
    num_events,       \* Stimulator::num_events (constructor argument size_)
    amplitudes,       \* Stimulator::amplitudes      (length num_events)
    pulsewidths,      \* Stimulator::pulsewidths     (length num_events)
    max_amplitudes,   \* Stimulator::max_amplitudes  (length num_events)
    max_pulsewidths,  \* Stimulator::max_pulsewidths (length num_events)
    m_id,             \* Scheduler::m_id
    id_set,           \* Scheduler::set_id has been called
    m_enabled,        \* Scheduler::m_enabled
    m_events,         \* Scheduler::m_events: Seq of [ch, id, amp, pw]
    last,             \* record of the last operation
    ops,              \* number of operations performed since construction
    message,          \* the buffer handed to checksum / write_message (message_)
    codec,            \* record of the last call of a framing helper
    drain,            \* update() statement by statement: Scheduler::update, read_all
    mtx,              \* Stimulator::mtx: "free" or the thread that holds it
    upd,              \* the thread that calls update(): position in the snapshot loop
    rdr               \* a thread that reads the four arrays: position and copy

stimVars  == <<enabled, hComm, leaked, board_init>>
chanVars  == <<channels>>
snapVars  == <<num_events, amplitudes, pulsewidths, max_amplitudes, max_pulsewidths>>
schedVars == <<m_id, id_set, m_enabled, m_events>>
vars      == <<phase, enabled, hComm, leaked, board_init, channels, num_events,
               amplitudes, pulsewidths, max_amplitudes, max_pulsewidths,
               m_id, id_set, m_enabled, m_events, last, ops, message, codec,
               drain, mtx, upd, rdr>>
codecVars  == <<message, codec>>
drainVars  == <<drain>>
threadVars == <<mtx, upd, rdr>>
stimAll == <<phase, stimVars, chanVars, snapVars, schedVars, last, ops>>

\* ---- transport calls and frames ------------------------------------------
\* One entry of last.io: a transport call.  Frames are the entries written with
\* write_message; sid is the scheduler id a frame references, ref the channel
\* or event id it addresses.
FrameTypes == {"setup", "create", "add", "sync", "event", "halt"}

IO(type, sid, ref, amp, pw, ok) ==
    [type |-> type, sid |-> sid, ref |-> ref, amp |-> amp, pw |-> pw, ok |-> ok]

Call(type, ok) == IO(type, 0, 0, 0, 0, ok)

IsFrame(e) == e.type \in FrameTypes

Frames(io) == SelectSeq(io, IsFrame)

\* The record of an operation: en is what is_enabled() answered when it was called,
\* arg the channel list it was given (add_events) or the channel name and the
\* value it was given (update_max_amp, update_max_pw).
Op(name, en, ret, io, log) ==
    [op |-> name, en |-> en, ret |-> ret, io |-> io, log |-> log, arg |-> <<>>]

Bool(b) == IF b THEN "true" ELSE "false"

\* The record of a call of a framing helper: the frame or the integer it was
\* given, the checksum it returned, the bytes it produced (handed to the
\* transport by write_message, returned by int_to_twobytes), its return value,
\* the outcome of the transport write and the log levels it emitted.
Codec(fn, frame, num, csum, bytes, ret, ok, log) ==
    [fn |-> fn, frame |-> frame, num |-> num, csum |-> csum, bytes |-> bytes,
     ret |-> ret, ok |-> ok, log |-> log]

NoCall == Codec("none", <<>>, 0, 0, <<>>, "none", FALSE, {})

\* update() between calls: nothing sent, nothing read; queued is the number of
\* bytes the device has sent that nobody has read yet.
DrainIdle(queued) ==
    [pc |-> "idle", success |-> FALSE, io |-> <<>>, log |-> {},
     queued |-> queued, budget |-> 0]

\* No thread is inside update()'s snapshot section or reading the arrays.
ThreadIdle == [pc |-> "idle", k |-> 0, view |-> <<>>, before |-> <<>>, seen |-> {}]

NoThreads == mtx = "free" /\ upd = ThreadIdle /\ rdr = ThreadIdle

\* ---- Stimulator: small accessors ------------------------------------------
\* (variant of is_enabled that answers true whatever the flag says)
is_enabled_always == TRUE

is_enabled == enabled

\* The port is opened with no sharing: a handle of this process that is still
\* open makes a second CreateFileW on the same port fail.
PortHeld(h, lk) == h = "OPEN" \/ lk

\* ---- Channel (modelled from the specification, section 4.2) ---------------
\* setup_channel: writes the channel's setup frame (port/channel byte, amplitude
\* limit, pulse-width limit, ...) and fails iff the write fails.
setup_channel(c, ok) == IO("setup", 0, c.name, c.max_amp, c.max_pw, ok)

\* ---- Stimulator::open_port / configure_port / initialize_board ------------
\* open_port assigns hComm whatever CreateFileW returns; a handle that was open
\* in hComm and is overwritten stays open with nobody holding it.
open_port(h, lk, osOk) ==
    LET ok == osOk /\ ~PortHeld(h, lk)
    IN  [ok     |-> ok,
         hComm  |-> IF ok THEN "OPEN" ELSE "INVALID",
         leaked |-> lk \/ (h = "OPEN")]

\* (variant of initialize_board that keeps going after a failed setup)
initialize_board_no_stop(chs, k) ==
    [ok |-> k = Len(chs),
     io |-> [i \in 1..Len(chs) |-> setup_channel(chs[i], i # k + 1)]]

\* initialize_board with k = the number of channels whose setup write succeeds
\* before the first failing one (k = Len(chs): none fails).  The loop returns at
\* the first failure.
initialize_board(chs, k) ==
    [ok |-> k = Len(chs),
     io |-> [i \in 1..Min(k + 1, Len(chs)) |-> setup_channel(chs[i], i <= k)]]

\* Stimulator::enable as a function of the state it reads and the transport's
\* answers: osOk (CreateFileW), cfgOk (configure_port), k (see initialize_board).
enable(h, lk, chs, osOk, cfgOk, k) ==
    LET o == open_port(h, lk, osOk)
        b == initialize_board(chs, k)
    IN  IF ~o.ok THEN
            [enabled |-> FALSE, hComm |-> o.hComm, leaked |-> o.leaked,
             board_init |-> FALSE,
             last |-> Op("enable", FALSE, "false", <<Call("open", FALSE)>>, {"Error"})]
        ELSE IF ~cfgOk THEN
            [enabled |-> FALSE, hComm |-> o.hComm, leaked |-> o.leaked,
             board_init |-> FALSE,
             last |-> Op("enable", FALSE, "false",
                         <<Call("open", TRUE), Call("configure", FALSE)>>,
                         {"Info", "Error"})]
        ELSE IF ~b.ok THEN
            [enabled |-> FALSE, hComm |-> o.hComm, leaked |-> o.leaked,
             board_init |-> FALSE,
             last |-> Op("enable", FALSE, "false",
                         <<Call("open", TRUE), Call("configure", TRUE)>> \o b.io,
                         {"Info"})]
        ELSE
            [enabled |-> TRUE, hComm |-> o.hComm, leaked |-> o.leaked,
             board_init |-> TRUE,
             last |-> Op("enable", FALSE, "true",
                         <<Call("open", TRUE), Call("configure", TRUE)>> \o b.io,
                         {"Info"})]

\* ---- initial state: the constructor -----------------------------------------
\* The channel list handed to the constructor: names 1..NumChannels, maxima at
\* MaxVal.
InitChannels == [i \in 1..NumChannels |-> [name |-> i, max_amp |-> MaxVal, max_pw |-> MaxVal]]

\* Stimulator::Stimulator: the four arrays get size_ entries, the maxima are
\* copied from channels[0..size_-1] (so size_ <= channels.size()), and enable()
\* runs.  Scheduler::m_id is not initialised by anything in the sources: it
\* starts with any byte.
Init ==
    \E size \in 0..NumChannels, osOk \in BOOLEAN, cfgOk \in BOOLEAN,
       k \in 0..NumChannels, garbage \in IdVals :
        LET r == enable("INVALID", FALSE, InitChannels, osOk, cfgOk, k)
        IN  /\ phase = "live"
            /\ enabled = r.enabled
            /\ hComm = r.hComm
            /\ leaked = r.leaked
            /\ board_init = r.board_init
            /\ channels = InitChannels
            /\ num_events = size
            /\ amplitudes = [i \in 1..size |-> 0]
            /\ pulsewidths = [i \in 1..size |-> 0]
            /\ max_amplitudes = [i \in 1..size |-> InitChannels[i].max_amp]
            /\ max_pulsewidths = [i \in 1..size |-> InitChannels[i].max_pw]
            /\ m_id = garbage
            /\ id_set = FALSE
            /\ m_enabled = FALSE
            /\ m_events = <<>>
            /\ last = [r.last EXCEPT !.op = "construct"]
            /\ ops = 0
            /\ message = <<>>
            /\ codec = NoCall
            /\ drain = DrainIdle(0)
            /\ NoThreads

\* Every operation is one call of the caller, who makes at most MaxOps of them
\* and makes none while it is inside update().  The framing helpers' scratch
\* state is not part of the Stimulator.
Tick ==
    /\ ops < MaxOps
    /\ ops' = ops + 1
    /\ drain.pc = "idle"
    /\ UNCHANGED <<codecVars, drainVars, threadVars>>

\* ---- Stimulator::enable ------------------------------------------------------
Enable ==
    /\ phase = "live"
    /\ Tick
    /\ \E osOk \in BOOLEAN, cfgOk \in BOOLEAN, k \in 0..Len(channels) :
        LET r == enable(hComm, leaked, channels, osOk, cfgOk, k)
        IN  /\ enabled' = r.enabled
            /\ hComm' = r.hComm
            /\ leaked' = r.leaked
            /\ board_init' = r.board_init
            /\ last' = [r.last EXCEPT !.en = is_enabled]
    /\ UNCHANGED <<phase, chanVars, snapVars, schedVars>>

\* What a write through the Stimulator's handle can answer: it can succeed only
\* on an open handle.
WriteOutcomes == IF hComm = "OPEN" THEN BOOLEAN ELSE {FALSE}

\* ---- Scheduler (modelled from the specification, section 4.4) ---------------
\* Index of the first Event bound to channel ch, 0 if there is none.
FirstEvent(events, ch) ==
    IF \E i \in 1..Len(events) : events[i].ch = ch
    THEN CHOOSE i \in 1..Len(events) :
            /\ events[i].ch = ch
            /\ \A j \in 1..(i - 1) : events[j].ch # ch
    ELSE 0

\* Scheduler::disable: marks the scheduler not enabled; the specification leaves
\* open whether a halt frame goes out (halt = "none" | "ok" | "fail").
Scheduler_disable(id, halt) ==
    [m_enabled |-> FALSE,
     io |-> IF halt = "none" THEN <<>> ELSE <<IO("halt", id, 0, 0, 0, halt = "ok")>>]

\* Scheduler::halt_scheduler: sends a halt frame referencing the scheduler id and
\* clears the enabled flag on success.
Scheduler_halt_scheduler(id, en, ok) ==
    [ok |-> ok,
     m_enabled |-> IF ok THEN FALSE ELSE en,
     io |-> <<IO("halt", id, 0, 0, 0, ok)>>]

\* Scheduler::send_sync_msg: transmits the sync byte, marks the scheduler enabled
\* on success.
Scheduler_send_sync_msg(en, ok) ==
    [ok |-> ok,
     m_enabled |-> IF ok THEN TRUE ELSE en,
     io |-> <<IO("sync", 0, 0, 0, 0, ok)>>]

\* Scheduler::create_scheduler: sends the create frame; succeeds iff the write does.
Scheduler_create_scheduler(ok) ==
    [ok |-> ok, io |-> <<IO("create", 0, 0, 0, 0, ok)>>]

\* The device id of the next Event: ids follow registration order.
NextEventId(events) == Len(events) + 1

\* Scheduler::add_event: sends the add-event frame carrying the scheduler id and
\* the channel; on success appends the new Event.  The specification (section 7c)
\* states that adding before the id is assigned is not guarded.
Scheduler_add_event(events, id, ch, ok) ==
    [ok |-> ok,
     m_events |-> IF ok
                  THEN Append(events, [ch |-> ch, id |-> NextEventId(events),
                                       amp |-> 0, pw |-> 0])
                  ELSE events,
     io |-> <<IO("add", id, ch, 0, 0, ok)>>]

\* Scheduler::set_amp / write_pw: first Event bound to the channel, by linear
\* scan; the staged value is stored as given (no client-side clamp).
Scheduler_set_amp(events, ch, a) ==
    LET i == FirstEvent(events, ch)
    IN  IF i = 0 THEN events ELSE [events EXCEPT ![i].amp = a]

Scheduler_write_pw(events, ch, p) ==
    LET i == FirstEvent(events, ch)
    IN  IF i = 0 THEN events ELSE [events EXCEPT ![i].pw = p]

Scheduler_get_amp(events, ch) ==
    LET i == FirstEvent(events, ch)
    IN  IF i = 0 THEN 0 ELSE events[i].amp

Scheduler_get_pw(events, ch) ==
    LET i == FirstEvent(events, ch)
    IN  IF i = 0 THEN 0 ELSE events[i].pw

\* Scheduler::update: one command frame per Event (event id, amplitude, pulse
\* width); fails is the set of indices whose write fails; every Event is
\* attempted.
Scheduler_update(events, fails) ==
    [ok |-> \A i \in 1..Len(events) : i \notin fails,
     io |-> [i \in 1..Len(events) |->
                IO("event", 0, events[i].id, events[i].amp, events[i].pw, i \notin fails)]]

\* ---- Stimulator::close_stimulator / disable / ~Stimulator -------------------
close_stimulator == [hComm |-> "CLOSED", enabled |-> FALSE, io |-> <<Call("close", TRUE)>>]

\* (variant of disable that closes the handle without asking is_enabled)
disable_unguarded(en, h, id, sen, halt) ==
    LET s == Scheduler_disable(id, halt)
        c == close_stimulator
    IN  [enabled |-> FALSE, hComm |-> c.hComm, m_enabled |-> s.m_enabled,
         io |-> s.io \o c.io, log |-> {"Info"}]

\* Stimulator::disable as a function of the state it reads; halt is the choice
\* of Scheduler::disable.
disable(en, h, id, sen, halt) ==
    IF en THEN
        LET s == Scheduler_disable(id, halt)
            c == close_stimulator
        IN  [enabled |-> FALSE, hComm |-> c.hComm, m_enabled |-> s.m_enabled,
             io |-> s.io \o c.io, log |-> {"Info"}]
    ELSE
        [enabled |-> FALSE, hComm |-> h, m_enabled |-> sen,
         io |-> <<>>, log |-> {"Info"}]

HaltChoices == IF hComm = "OPEN" THEN {"none", "ok", "fail"} ELSE {"none", "fail"}

Disable ==
    /\ phase = "live"
    /\ Tick
    /\ \E halt \in HaltChoices :
        LET r == disable(is_enabled, hComm, m_id, m_enabled, halt)
        IN  /\ enabled' = r.enabled
            /\ hComm' = r.hComm
            /\ m_enabled' = r.m_enabled
            /\ board_init' = (board_init /\ r.hComm = "OPEN")
            /\ last' = Op("disable", is_enabled, "void", r.io, r.log)
    /\ UNCHANGED <<phase, leaked, chanVars, snapVars, m_id, id_set, m_events>>

\* ~Stimulator: disable(), after which the object is gone.
Destroy ==
    /\ phase = "live"
    /\ Tick
    /\ \E halt \in HaltChoices :
        LET r == disable(is_enabled, hComm, m_id, m_enabled, halt)
        IN  /\ enabled' = r.enabled
            /\ hComm' = r.hComm
            /\ m_enabled' = r.m_enabled
            /\ board_init' = (board_init /\ r.hComm = "OPEN")
            /\ last' = Op("destroy", is_enabled, "void", r.io, r.log)
    /\ phase' = "destroyed"
    /\ UNCHANGED <<leaked, chanVars, snapVars, m_id, id_set, m_events>>

\* ---- Stimulator::halt_scheduler ----------------------------------------------
HaltScheduler ==
    /\ phase = "live"
    /\ Tick
    /\ \E ok \in WriteOutcomes :
        LET r == Scheduler_halt_scheduler(m_id, m_enabled, ok)
        IN  /\ m_enabled' = r.m_enabled
            /\ last' = Op("halt_scheduler", is_enabled, Bool(r.ok), r.io, {})
    /\ UNCHANGED <<phase, stimVars, chanVars, snapVars, m_id, id_set, m_events>>

\* ---- Stimulator::begin ---------------------------------------------------------
Begin ==
    /\ phase = "live"
    /\ Tick
    /\ IF is_enabled THEN
            \E ok \in WriteOutcomes :
                LET r == Scheduler_send_sync_msg(m_enabled, ok)
                IN  /\ enabled' = TRUE
                    /\ m_enabled' = r.m_enabled
                    /\ last' = Op("begin", is_enabled, Bool(r.ok), r.io, {})
       ELSE
            /\ last' = Op("begin", is_enabled, "false", <<>>, {"Error"})
            /\ UNCHANGED <<enabled, m_enabled>>
    /\ UNCHANGED <<phase, hComm, leaked, board_init, chanVars, snapVars,
                   m_id, id_set, m_events>>

\* ---- Stimulator::set_amp / write_pw --------------------------------------------
\* (variant of set_amp that sends the events' command frames at once)
SetAmpAndSend ==
    /\ phase = "live"
    /\ Tick
    /\ \E ch \in ChanArgs, a \in Vals :
        IF is_enabled THEN
            /\ m_events' = Scheduler_set_amp(m_events, ch, a)
            /\ last' = Op("set_amp", is_enabled, "void",
                          Scheduler_update(Scheduler_set_amp(m_events, ch, a), {}).io, {})
        ELSE
            /\ last' = Op("set_amp", is_enabled, "void", <<>>, {"Error"})
            /\ UNCHANGED m_events
    /\ UNCHANGED <<phase, stimVars, chanVars, snapVars, m_id, id_set, m_enabled>>

SetAmp ==
    /\ phase = "live"
    /\ Tick
    /\ \E ch \in ChanArgs, a \in Vals :
        IF is_enabled THEN
            /\ m_events' = Scheduler_set_amp(m_events, ch, a)
            /\ last' = Op("set_amp", is_enabled, "void", <<>>, {})
        ELSE
            /\ last' = Op("set_amp", is_enabled, "void", <<>>, {"Error"})
            /\ UNCHANGED m_events
    /\ UNCHANGED <<phase, stimVars, chanVars, snapVars, m_id, id_set, m_enabled>>

WritePw ==
    /\ phase = "live"
    /\ Tick
    /\ \E ch \in ChanArgs, p \in Vals :
        IF is_enabled THEN
            /\ m_events' = Scheduler_write_pw(m_events, ch, p)
            /\ last' = Op("write_pw", is_enabled, "void", <<>>, {})
        ELSE
            /\ last' = Op("write_pw", is_enabled, "void", <<>>, {"Error"})
            /\ UNCHANGED m_events
    /\ UNCHANGED <<phase, stimVars, chanVars, snapVars, m_id, id_set, m_enabled>>

\* ---- Stimulator::set_amps / write_pws ------------------------------------------
\* Stimulator::set_amp / write_pw as functions of the event list.
set_amp(events, en, ch, a) ==
    IF en THEN [events |-> Scheduler_set_amp(events, ch, a), log |-> {}]
    ELSE [events |-> events, log |-> {"Error"}]

write_pw(events, en, ch, p) ==
    IF en THEN [events |-> Scheduler_write_pw(events, ch, p), log |-> {}]
    ELSE [events |-> events, log |-> {"Error"}]

\* The loop of set_amps: set_amp(channels_[i], amplitudes_[i]) for every i of the
\* channel list; vs holds one value per channel.
RECURSIVE set_amps(_, _, _, _)
set_amps(events, en, chs, vs) ==
    IF chs = <<>> THEN [events |-> events, log |-> {}]
    ELSE LET r == set_amp(events, en, Head(chs), Head(vs))
             rest == set_amps(r.events, en, Tail(chs), Tail(vs))
         IN  [events |-> rest.events, log |-> r.log \cup rest.log]

RECURSIVE write_pws(_, _, _, _)
write_pws(events, en, chs, vs) ==
    IF chs = <<>> THEN [events |-> events, log |-> {}]
    ELSE LET r == write_pw(events, en, Head(chs), Head(vs))
             rest == write_pws(r.events, en, Tail(chs), Tail(vs))
         IN  [events |-> rest.events, log |-> r.log \cup rest.log]

\* The channel lists handed to set_amps / write_pws, and the value vectors that
\* go with a list of n channels: the loop never reads a vector past index n, so
\* longer vectors are left out.
BatchChans == UNION {[1..n -> EventChans] : n \in 0..MaxBatch}
ValLists(n) == UNION {[1..k -> Vals] : k \in 0..n}

\* What the loop reads at the indices of the channel list: the vector's values
\* where it has them; past the end of a shorter vector the read is out of
\* bounds and yields anything.
ReadValues(chs, vs) ==
    {vs \o junk : junk \in [1..(Len(chs) - Len(vs)) -> Vals]}

SetAmps ==
    /\ phase = "live"
    /\ Tick
    /\ \E chs \in BatchChans : \E vs \in ValLists(Len(chs)) :
        \/ \E w \in ReadValues(chs, vs) :
            LET r == set_amps(m_events, is_enabled, chs, w)
            IN  /\ m_events' = r.events
                /\ last' = Op("set_amps", is_enabled, "void", <<>>, r.log)
                /\ UNCHANGED phase
        \/ \* the read past the end of the vector aborts the process
           \* after the passes that found their value
           /\ Len(vs) < Len(chs)
           /\ LET r == set_amps(m_events, is_enabled, SubSeq(chs, 1, Len(vs)), vs)
              IN  /\ m_events' = r.events
                  /\ last' = Op("set_amps", is_enabled, "none", <<>>, r.log)
           /\ phase' = "crashed"
    /\ UNCHANGED <<stimVars, chanVars, snapVars, m_id, id_set, m_enabled>>

WritePws ==
    /\ phase = "live"
    /\ Tick
    /\ \E chs \in BatchChans : \E vs \in ValLists(Len(chs)) :
        \/ \E w \in ReadValues(chs, vs) :
            LET r == write_pws(m_events, is_enabled, chs, w)
            IN  /\ m_events' = r.events
                /\ last' = Op("write_pws", is_enabled, "void", <<>>, r.log)
                /\ UNCHANGED phase
        \/ \* the read past the end of the vector aborts the process
           \* after the passes that found their value
           /\ Len(vs) < Len(chs)
           /\ LET r == write_pws(m_events, is_enabled, SubSeq(chs, 1, Len(vs)), vs)
              IN  /\ m_events' = r.events
                  /\ last' = Op("write_pws", is_enabled, "none", <<>>, r.log)
           /\ phase' = "crashed"
    /\ UNCHANGED <<stimVars, chanVars, snapVars, m_id, id_set, m_enabled>>

\* ---- Stimulator::update_max_amp / update_max_pw --------------------------------
\* Index of the first channel of the list whose name is nm, 0 if none.
FirstChannel(chs, nm) ==
    IF \E i \in 1..Len(chs) : chs[i].name = nm
    THEN CHOOSE i \in 1..Len(chs) :
            /\ chs[i].name = nm
            /\ \A j \in 1..(i - 1) : chs[j].name # nm
    ELSE 0

\* (variant of update_max_amp that goes on after the first match and sets the
\* maximum of every channel of that name)
update_max_amp_every_match(chs, nm, m) ==
    IF FirstChannel(chs, nm) = 0 THEN [channels |-> chs, log |-> {"Error"}]
    ELSE [channels |-> [i \in 1..Len(chs) |->
                            IF chs[i].name = nm THEN [chs[i] EXCEPT !.max_amp = m]
                            ELSE chs[i]],
          log |-> {}]

\* update_max_amp / update_max_pw do not test is_enabled() and make no
\* transport call: they set the maximum of the first channel of the list with
\* the given name and return, or log an error after the loop.
update_max_amp(chs, nm, m) ==
    LET i == FirstChannel(chs, nm)
    IN  IF i = 0 THEN [channels |-> chs, log |-> {"Error"}]
        ELSE [channels |-> [chs EXCEPT ![i].max_amp = m], log |-> {}]

update_max_pw(chs, nm, m) ==
    LET i == FirstChannel(chs, nm)
    IN  IF i = 0 THEN [channels |-> chs, log |-> {"Error"}]
        ELSE [channels |-> [chs EXCEPT ![i].max_pw = m], log |-> {}]

UpdateMaxAmp ==
    /\ phase = "live"
    /\ Tick
    /\ \E ch \in ChanArgs, m \in Vals :
        LET r == update_max_amp(channels, ch, m)
        IN  /\ channels' = r.channels
            /\ last' = [Op("update_max_amp", is_enabled, "void", <<>>, r.log)
                            EXCEPT !.arg = <<ch, m>>]
    /\ UNCHANGED <<phase, stimVars, snapVars, schedVars>>

UpdateMaxPw ==
    /\ phase = "live"
    /\ Tick
    /\ \E ch \in ChanArgs, m \in Vals :
        LET r == update_max_pw(channels, ch, m)
        IN  /\ channels' = r.channels
            /\ last' = [Op("update_max_pw", is_enabled, "void", <<>>, r.log)
                            EXCEPT !.arg = <<ch, m>>]
    /\ UNCHANGED <<phase, stimVars, snapVars, schedVars>>

\* ---- Stimulator::update, statement by statement -----------------------------------
\* The four parallel arrays.
Arrays == <<amplitudes, pulsewidths, max_amplitudes, max_pulsewidths>>

\* std::lock_guard<std::mutex> on mtx: the thread goes on once the mutex is
\* free and holds it until the end of the block.
lock_guard(m, who) == [can |-> m = "free", mtx |-> who]

unlock(m, who) == IF m = who THEN "free" ELSE m

\* (variant of update()'s snapshot section that does not take the mutex)
update_no_lock(m) == [can |-> TRUE, mtx |-> m]

\* update() takes mtx for its snapshot section.
update_lock(m) == lock_guard(m, "update")

\* The snapshot loop runs for i < scheduler.get_num_events() and indexes past
\* the end of the arrays (sized num_events at construction) when the scheduler
\* holds more events than that.
SnapshotOutOfBounds(events, size) == Len(events) > size

FailSets(n) == IF hComm = "OPEN" THEN SUBSET (1..n) ELSE {1..n}

\* (variant of the loop body of read_all that stops after its first read)
read_all_step_once(queued, failed) ==
    LET dwBytesRead == IF failed \/ queued = 0 THEN 0 ELSE 1
    IN  [dwBytesRead |-> dwBytesRead,
         done        |-> TRUE,
         log         |-> IF failed THEN {"Error"} ELSE {}]

\* One pass of the loop of read_all: ReadFile of one byte.  A failed ReadFile is
\* logged and delivers no byte (ReadFile zeroes the count before anything else);
\* a read with nothing queued returns no byte after the read timeout.  The loop
\* ends exactly when no byte was delivered.
read_all_step(queued, failed) ==
    LET dwBytesRead == IF failed \/ queued = 0 THEN 0 ELSE 1
    IN  [dwBytesRead |-> dwBytesRead,
         done        |-> dwBytesRead = 0,
         log         |-> IF failed THEN {"Error"} ELSE {}]

\* The call of update() and its is_enabled() test.  A Stimulator that is not
\* enabled logs and returns false at once; an enabled one goes on to the
\* snapshot section, and the caller stays inside update() (last.op = "updating")
\* until it returns.
Update ==
    /\ phase = "live"
    /\ drain.pc = "idle"
    /\ ops < MaxOps
    /\ ops' = ops + 1
    /\ IF is_enabled THEN
            /\ last' = Op("updating", is_enabled, "none", <<>>, {})
            /\ drain' = [drain EXCEPT !.pc = "lock"]
       ELSE
            /\ last' = Op("update", is_enabled, "false", <<>>, {"Error"})
            /\ UNCHANGED drain
    /\ UNCHANGED <<phase, stimVars, chanVars, snapVars, schedVars, codecVars, threadVars>>

\* std::lock_guard<std::mutex> lock(mtx); `before` remembers the arrays as they
\* were when the copy began.
UpdateLock ==
    /\ phase = "live"
    /\ drain.pc = "lock"
    /\ update_lock(mtx).can
    /\ mtx' = update_lock(mtx).mtx
    /\ upd' = [upd EXCEPT !.pc = "copy", !.k = 0, !.before = Arrays]
    /\ drain' = [drain EXCEPT !.pc = "copy"]
    /\ UNCHANGED <<stimAll, codecVars, rdr>>

\* The k-th store of the snapshot loop: four stores per index i, in the order of
\* the loop body; the loop condition reads the scheduler's event count anew on
\* every pass.  A store past the end of the arrays either aborts the process or
\* goes unnoticed.
UpdateCopy ==
    /\ phase = "live"
    /\ drain.pc = "copy"
    /\ upd.k < 4 * Len(m_events)
    /\ LET i == (upd.k \div 4) + 1
           j == upd.k % 4
       IN  IF SnapshotOutOfBounds(SubSeq(m_events, 1, i), Min(num_events, Len(channels)))
           THEN \/ /\ phase' = "crashed"
                   /\ last' = Op("update", is_enabled, "none", <<>>, {})
                   /\ UNCHANGED <<upd, snapVars>>
                \/ /\ upd' = [upd EXCEPT !.k = @ + 1]
                   /\ UNCHANGED <<phase, last, snapVars>>
           ELSE /\ amplitudes' = IF j = 0
                     THEN [amplitudes EXCEPT ![i] = Scheduler_get_amp(m_events, channels[i].name)]
                     ELSE amplitudes
                /\ pulsewidths' = IF j = 1
                     THEN [pulsewidths EXCEPT ![i] = Scheduler_get_pw(m_events, channels[i].name)]
                     ELSE pulsewidths
                /\ max_amplitudes' = IF j = 2
                     THEN [max_amplitudes EXCEPT ![i] = channels[i].max_amp]
                     ELSE max_amplitudes
                /\ max_pulsewidths' = IF j = 3
                     THEN [max_pulsewidths EXCEPT ![i] = channels[i].max_pw]
                     ELSE max_pulsewidths
                /\ upd' = [upd EXCEPT !.k = @ + 1]
                /\ UNCHANGED <<phase, last, num_events>>
    /\ UNCHANGED <<stimVars, chanVars, schedVars, ops, codecVars, drainVars, mtx, rdr>>

\* End of the block: the lock_guard releases mtx; nothing has been sent yet.  A
\* reader that is under way gets the finished copy added to the versions it may
\* legitimately have seen.
UpdateUnlock ==
    /\ phase = "live"
    /\ drain.pc = "copy"
    /\ upd.k = 4 * Len(m_events)
    /\ mtx' = unlock(mtx, "update")
    /\ upd' = ThreadIdle
    /\ rdr' = IF rdr.pc = "read" THEN [rdr EXCEPT !.seen = @ \cup {Arrays}] ELSE rdr
    /\ drain' = [drain EXCEPT !.pc = "send"]
    /\ UNCHANGED <<stimAll, codecVars>>

\* bool success = scheduler.update(); it runs without mtx and sends what the
\* events hold now.  The device will send budget more bytes.
UpdateSend ==
    /\ phase = "live"
    /\ drain.pc = "send"
    /\ \E fails \in FailSets(Len(m_events)), b \in 0..(MaxDrain - drain.queued) :
        LET u == Scheduler_update(m_events, fails)
        IN  drain' = [pc |-> "reading", success |-> u.ok, io |-> u.io, log |-> {},
                      queued |-> drain.queued, budget |-> b]
    /\ UNCHANGED <<stimAll, codecVars, threadVars>>

\* The device sends one more byte of its reply.
DeviceSends ==
    /\ phase = "live"
    /\ drain.budget > 0
    /\ drain' = [drain EXCEPT !.queued = @ + 1, !.budget = @ - 1]
    /\ UNCHANGED <<stimAll, codecVars, threadVars>>

\* read_all(): one pass of its loop.
ReadAllStep ==
    /\ phase = "live"
    /\ drain.pc = "reading"
    /\ \E failed \in BOOLEAN :
        LET r == read_all_step(drain.queued, failed)
        IN  drain' = [drain EXCEPT
                        !.queued = @ - r.dwBytesRead,
                        !.io = Append(@, Call("read", r.dwBytesRead # 0)),
                        !.log = @ \cup r.log,
                        !.pc = IF r.done THEN "return" ELSE "reading"]
    /\ UNCHANGED <<stimAll, codecVars, threadVars>>

\* return success;
UpdateReturn ==
    /\ phase = "live"
    /\ drain.pc = "return"
    /\ last' = Op("update", is_enabled, Bool(drain.success), drain.io, drain.log)
    /\ drain' = DrainIdle(drain.queued)
    /\ UNCHANGED <<phase, stimVars, chanVars, snapVars, schedVars, ops,
                   codecVars, threadVars>>

\* A thread beside the one inside update() stages a value with set_amp,
\* write_pw, update_max_amp or update_max_pw: none of them takes mtx, so it
\* runs at any point of update().
Stage ==
    /\ phase = "live"
    /\ ops < MaxStages
    /\ ops' = ops + 1
    /\ \E ch \in EventChans, v \in Vals :
        \/ /\ is_enabled
           /\ m_events' = Scheduler_set_amp(m_events, ch, v)
           /\ UNCHANGED channels
        \/ /\ is_enabled
           /\ m_events' = Scheduler_write_pw(m_events, ch, v)
           /\ UNCHANGED channels
        \/ /\ channels' = update_max_amp(channels, ch, v).channels
           /\ UNCHANGED m_events
        \/ /\ channels' = update_max_pw(channels, ch, v).channels
           /\ UNCHANGED m_events
    /\ UNCHANGED <<phase, stimVars, snapVars, m_id, id_set, m_enabled, last,
                   codecVars, drainVars, threadVars>>


\* ---- Stimulator::create_scheduler --------------------------------------------------
\* wait_for_message (modelled from the specification, section 4.4): the reply's
\* payload, empty when nothing arrived within the read timeout.
Replies == {<<>>} \cup {<<b>> : b \in IdVals}

\* The read is recorded with the first payload byte it delivered in `ref`.
wait_for_message(reply) ==
    [data |-> reply,
     io   |-> <<IO("read", 0, IF reply = <<>> THEN 0 ELSE reply[1], 0, 0, reply # <<>>)>>]

\* (variant of create_scheduler that never takes the id from the reply)
create_scheduler_ignores_reply(wrOk, reply, junk) ==
    LET s == Scheduler_create_scheduler(wrOk)
        w == wait_for_message(reply)
    IN  [ret  |-> s.ok,
         m_id |-> junk,
         undefined |-> w.data = <<>>,
         io   |-> s.io \o w.io]

\* create_scheduler sends the request, waits for the reply, stores get_data()[0]
\* with set_id and returns what the send returned.  On an empty reply
\* get_data()[0] reads past the end of an empty vector: the process aborts or
\* any byte is stored.
create_scheduler(wrOk, reply, junk) ==
    LET s == Scheduler_create_scheduler(wrOk)
        w == wait_for_message(reply)
    IN  [ret  |-> s.ok,
         m_id |-> IF w.data = <<>> THEN junk ELSE w.data[1],
         undefined |-> w.data = <<>>,
         io   |-> s.io \o w.io]

CreateScheduler ==
    /\ phase = "live"
    /\ Tick
    /\ IF is_enabled THEN
            \E wrOk \in WriteOutcomes, reply \in Replies, junk \in IdVals :
                LET r == create_scheduler(wrOk, reply, junk)
                IN  \/ /\ r.undefined
                       /\ phase' = "crashed"
                       /\ last' = Op("create_scheduler", is_enabled, "none", r.io, {})
                       /\ UNCHANGED <<m_id, id_set>>
                    \/ /\ m_id' = r.m_id
                       /\ id_set' = TRUE
                       /\ last' = Op("create_scheduler", is_enabled, Bool(r.ret), r.io, {})
                       /\ UNCHANGED phase
       ELSE
            /\ last' = Op("create_scheduler", is_enabled, "false", <<>>, {"Error"})
            /\ UNCHANGED <<phase, m_id, id_set>>
    /\ UNCHANGED <<stimVars, chanVars, snapVars, m_enabled, m_events>>

\* ---- Stimulator::add_event / add_events ----------------------------------------------
\* add_event tests is_enabled() and hands the channel to Scheduler::add_event
\* (the event type does not enter any frame field of this model).
add_event(en, events, id, ch, ok) ==
    IF en THEN
        LET r == Scheduler_add_event(events, id, ch, ok)
        IN  [ret |-> r.ok, m_events |-> r.m_events, io |-> r.io, log |-> {}]
    ELSE
        [ret |-> FALSE, m_events |-> events, io |-> <<>>, log |-> {"Error"}]

AddEvent ==
    /\ phase = "live"
    /\ Tick
    /\ Len(m_events) < MaxEvents
    /\ \E ch \in EventChans, ok \in WriteOutcomes :
        LET r == add_event(is_enabled, m_events, m_id, ch, ok)
        IN  /\ m_events' = r.m_events
            /\ last' = Op("add_event", is_enabled, Bool(r.ret), r.io, r.log)
    /\ UNCHANGED <<phase, stimVars, chanVars, snapVars, m_id, id_set, m_enabled>>

\* (variant of the add_events loop that goes on to the next channel after a
\* failed add_event)
RECURSIVE add_events_loop_no_stop(_, _, _, _, _)
add_events_loop_no_stop(events, id, chs, k, io) ==
    IF chs = <<>> THEN [ret |-> k >= 0, m_events |-> events, io |-> io]
    ELSE LET r == add_event(TRUE, events, id, Head(chs), k # 0)
         IN  add_events_loop_no_stop(r.m_events, id, Tail(chs), k - 1, io \o r.io)

\* add_events over the list chs, k = the number of add_event calls that succeed
\* before the first failing one (k = Len(chs): none fails); the loop returns at
\* the first failure.
RECURSIVE add_events_loop(_, _, _, _, _)
add_events_loop(events, id, chs, k, io) ==
    IF chs = <<>> THEN [ret |-> TRUE, m_events |-> events, io |-> io]
    ELSE LET r == add_event(TRUE, events, id, Head(chs), k > 0)
         IN  IF ~r.ret THEN [ret |-> FALSE, m_events |-> r.m_events, io |-> io \o r.io]
             ELSE add_events_loop(r.m_events, id, Tail(chs), k - 1, io \o r.io)

add_events(en, events, id, chs, k) ==
    IF en THEN
        LET r == add_events_loop(events, id, chs, k, <<>>)
        IN  [ret |-> r.ret, m_events |-> r.m_events, io |-> r.io, log |-> {}]
    ELSE
        [ret |-> FALSE, m_events |-> events, io |-> <<>>, log |-> {"Error"}]

\* The channel lists handed to add_events.
ChanLists == UNION {[1..n -> EventChans] : n \in 0..MaxBatch}

AddEvents ==
    /\ phase = "live"
    /\ Tick
    /\ \E chs \in ChanLists :
        /\ Len(m_events) + Len(chs) <= MaxEvents
        /\ \E k \in (IF hComm = "OPEN" THEN 0..Len(chs) ELSE {0}) :
            LET r == add_events(is_enabled, m_events, m_id, chs, k)
            IN  /\ m_events' = r.m_events
                /\ last' = [Op("add_events", is_enabled, Bool(r.ret), r.io, r.log)
                                EXCEPT !.arg = chs]
    /\ UNCHANGED <<phase, stimVars, chanVars, snapVars, m_id, id_set, m_enabled>>

\* One operation of the caller on the live object, or the next statement of the
\* update() it is inside.
Next ==
    \/ Enable
    \/ Disable
    \/ Destroy
    \/ HaltScheduler
    \/ Begin
    \/ SetAmp
    \/ WritePw
    \/ SetAmps
    \/ WritePws
    \/ UpdateMaxAmp
    \/ UpdateMaxPw
    \/ Update
    \/ UpdateLock
    \/ UpdateCopy
    \/ UpdateUnlock
    \/ UpdateSend
    \/ DeviceSends
    \/ ReadAllStep
    \/ UpdateReturn
    \/ CreateScheduler
    \/ AddEvent
    \/ AddEvents

Spec == Init /\ [][Next]_vars

\* ---- framing helpers: checksum, int_to_twobytes, write_message -----------------
\* Bitwise operators on naturals, bit by bit.
RECURSIVE BitAnd(_, _)
BitAnd(a, b) ==
    IF a = 0 \/ b = 0 THEN 0
    ELSE (a % 2) * (b % 2) + 2 * BitAnd(a \div 2, b \div 2)

RECURSIVE BitXor(_, _)
BitXor(a, b) ==
    IF a = 0 /\ b = 0 THEN 0
    ELSE (((a % 2) + (b % 2)) % 2) + 2 * BitXor(a \div 2, b \div 2)

ShiftRight(a, k) == a \div (2 ^ k)

\* Conversion of an int to unsigned char.
ToByte(x) == x % 256

\* The loop of checksum: csum += myarray[i] for i = from .. array_size - 2
\* (0-based; the sequence is 1-based).
RECURSIVE checksum_loop(_, _, _, _)
checksum_loop(myarray, i, array_size, csum) ==
    IF i < array_size - 1
    THEN checksum_loop(myarray, i + 1, array_size, csum + myarray[i + 1])
    ELSE csum

\* (variant of checksum that sums the last byte as well)
checksum_whole_frame(myarray, array_size) ==
    LET csum == checksum_loop(myarray, 0, array_size + 1, 0)
    IN  BitXor(BitAnd(255, csum) + ShiftRight(csum, 8), 255)

\* checksum returns an int.
checksum(myarray, array_size) ==
    LET csum == checksum_loop(myarray, 0, array_size, 0)
    IN  BitXor(BitAnd(255, csum) + ShiftRight(csum, 8), 255)

\* C++ integer division and remainder (truncation towards zero).
CDiv(a, b) == IF a >= 0 THEN a \div b ELSE -((-a) \div b)
CRem(a, b) == a - b * CDiv(a, b)

\* (variant of int_to_twobytes that returns the low byte first)
int_to_twobytes_low_first(input_int) ==
    <<ToByte(CRem(input_int, 256)), ToByte(CDiv(input_int, 256))>>

\* int_to_twobytes: both quotient and remainder are converted to unsigned char
\* by push_back.
int_to_twobytes(input_int) ==
    <<ToByte(CDiv(input_int, 256)), ToByte(CRem(input_int, 256))>>

\* (variant of write_message that hands the buffer over without storing the
\* checksum)
write_message_as_given(message_, message_size_, activity, wrOk) ==
    [message |-> message_,
     wire    |-> SubSeq(message_, 1, message_size_),
     ret     |-> wrOk,
     log     |-> IF activity = "NONE" THEN {}
                 ELSE IF wrOk THEN {"Info"} ELSE {"Error"}]

\* write_message stores (unsigned char)checksum in the last position of the
\* caller's buffer, hands the first message_size_ bytes to WriteFile and returns
\* whether WriteFile succeeded; it logs unless activity is "NONE".
write_message(message_, message_size_, activity, wrOk) ==
    LET stored == [message_ EXCEPT
                       ![message_size_] = ToByte(checksum(message_, message_size_))]
    IN  [message |-> stored,
         wire    |-> SubSeq(stored, 1, message_size_),
         ret     |-> wrOk,
         log     |-> IF activity = "NONE" THEN {}
                     ELSE IF wrOk THEN {"Info"} ELSE {"Error"}]

\* Byte values the frames are drawn from: the extremes, the protocol's
\* destination and source addresses (0x04, 0x80) and a small value.
ByteSample == {0, 1, 4, 128, 255}

CodecFrames == UNION {[1..n -> ByteSample] : n \in 1..MaxFrameLen}

Activities == {"NONE", "Sending message"}

\* No Stimulator exists while the helpers are exercised on their own.
NoStimulator ==
    /\ phase = "none"
    /\ enabled = FALSE /\ hComm = "INVALID" /\ leaked = FALSE /\ board_init = FALSE
    /\ channels = <<>>
    /\ num_events = 0
    /\ amplitudes = <<>> /\ pulsewidths = <<>>
    /\ max_amplitudes = <<>> /\ max_pulsewidths = <<>>
    /\ m_id = 0 /\ id_set = FALSE /\ m_enabled = FALSE /\ m_events = <<>>
    /\ last = Op("none", FALSE, "none", <<>>, {})
    /\ ops = 0

\* checksum / write_message applied to a caller's buffer.
InitCodec ==
    /\ NoStimulator
    /\ message \in CodecFrames
    /\ codec = NoCall
    /\ drain = DrainIdle(0)
    /\ NoThreads

Checksum ==
    /\ codec' = Codec("checksum", message, 0, checksum(message, Len(message)),
                      <<>>, "none", FALSE, {})
    /\ UNCHANGED <<message, stimAll, drainVars, threadVars>>

WriteMessage ==
    /\ \E activity \in Activities, wrOk \in BOOLEAN :
        LET r == write_message(message, Len(message), activity, wrOk)
        IN  /\ message' = r.message
            /\ codec' = Codec("write_message", message, 0, 0, r.wire, Bool(r.ret),
                              wrOk, r.log)
    /\ UNCHANGED <<stimAll, drainVars, threadVars>>

NextCodec ==
    \/ Checksum
    \/ WriteMessage

SpecCodec == InitCodec /\ [][NextCodec]_vars

\* int_to_twobytes applied to an integer.
InitTwoBytes ==
    /\ NoStimulator
    /\ message = <<>>
    /\ \E n \in 0..MaxTwoBytesInput : codec = [NoCall EXCEPT !.num = n]
    /\ drain = DrainIdle(0)
    /\ NoThreads

IntToTwoBytes ==
    /\ codec.fn = "none"
    /\ codec' = Codec("int_to_twobytes", <<>>, codec.num, 0,
                      int_to_twobytes(codec.num), "none", FALSE, {})
    /\ UNCHANGED <<message, stimAll, drainVars, threadVars>>

NextTwoBytes == IntToTwoBytes

SpecTwoBytes == InitTwoBytes /\ [][NextTwoBytes]_vars

\* ---- update() statement by statement: the reply drain ----------------------------
\* An enabled Stimulator constructed with size_ = n whose scheduler has been
\* created, given the id sid and one event per channel 1..n with the staged
\* values amps, pws, and started with begin().
RunningStimulator(n, amps, pws, sid) ==
    /\ phase = "live"
    /\ enabled = TRUE /\ hComm = "OPEN" /\ leaked = FALSE /\ board_init = TRUE
    /\ channels = InitChannels
    /\ num_events = n
    /\ amplitudes = [i \in 1..n |-> 0]
    /\ pulsewidths = [i \in 1..n |-> 0]
    /\ max_amplitudes = [i \in 1..n |-> InitChannels[i].max_amp]
    /\ max_pulsewidths = [i \in 1..n |-> InitChannels[i].max_pw]
    /\ m_id = sid /\ id_set = TRUE /\ m_enabled = TRUE
    /\ m_events = [i \in 1..n |-> [ch |-> i, id |-> i, amp |-> amps[i], pw |-> pws[i]]]
    /\ last = Op("begin", TRUE, "true", Scheduler_send_sync_msg(FALSE, TRUE).io, {})
    /\ ops = 0

InitDrain ==
    /\ \E n \in 0..Min(MaxEvents, NumChannels), sid \in IdVals :
        \E amps \in [1..n -> Vals], pws \in [1..n -> Vals] :
            RunningStimulator(n, amps, pws, sid)
    /\ message = <<>> /\ codec = NoCall
    /\ drain = DrainIdle(0)
    /\ NoThreads

\* update() beside a device that answers and a thread that stages values.
NextDrain ==
    \/ Update
    \/ UpdateLock
    \/ UpdateCopy
    \/ UpdateUnlock
    \/ UpdateSend
    \/ DeviceSends
    \/ Stage
    \/ ReadAllStep
    \/ UpdateReturn

\* The thread inside update() keeps running: every ReadFile returns within the
\* read timeouts set by configure_port.
SpecDrain ==
    /\ InitDrain
    /\ [][NextDrain]_vars
    /\ WF_vars(ReadAllStep)
    /\ WF_vars(UpdateReturn)

\* ---- update()'s snapshot section beside a reader thread ---------------------------
\* The reader (modelled from the specification, section 5: a UI polling the
\* arrays, which the lock is there to protect) takes mtx while it copies them.
reader_lock(m) == lock_guard(m, "reader")

InitSnap ==
    /\ \E n \in 1..Min(MaxEvents, NumChannels) :
        RunningStimulator(n, [i \in 1..n |-> 0], [i \in 1..n |-> 0], 0)
    /\ message = <<>> /\ codec = NoCall
    /\ drain = DrainIdle(0)
    /\ NoThreads

ReaderLock ==
    /\ rdr.pc = "idle"
    /\ reader_lock(mtx).can
    /\ mtx' = reader_lock(mtx).mtx
    /\ rdr' = [rdr EXCEPT !.pc = "read", !.k = 0, !.view = <<>>,
                          !.seen = {IF upd.pc = "copy" THEN upd.before ELSE Arrays}]
    /\ UNCHANGED <<stimAll, codecVars, drainVars, upd>>

\* The reader copies the arrays one after the other, element by element.
ReaderRead ==
    /\ rdr.pc = "read"
    /\ rdr.k < 4 * num_events
    /\ LET a == (rdr.k \div num_events) + 1
           i == (rdr.k % num_events) + 1
       IN  rdr' = [rdr EXCEPT !.k = @ + 1, !.view = Append(@, Arrays[a][i])]
    /\ UNCHANGED <<stimAll, codecVars, drainVars, mtx, upd>>

ReaderUnlock ==
    /\ rdr.pc = "read"
    /\ rdr.k = 4 * num_events
    /\ mtx' = unlock(mtx, "reader")
    /\ rdr' = [rdr EXCEPT !.pc = "done"]
    /\ UNCHANGED <<stimAll, codecVars, drainVars, upd>>

\* The reader uses its copy and polls again.
ReaderAgain ==
    /\ rdr.pc = "done"
    /\ rdr' = ThreadIdle
    /\ UNCHANGED <<stimAll, codecVars, drainVars, mtx, upd>>

NextSnap ==
    \/ Stage
    \/ Update
    \/ UpdateLock
    \/ UpdateCopy
    \/ UpdateUnlock
    \/ UpdateSend
    \/ DeviceSends
    \/ ReadAllStep
    \/ UpdateReturn
    \/ ReaderLock
    \/ ReaderRead
    \/ ReaderUnlock
    \/ ReaderAgain

SpecSnap == InitSnap /\ [][NextSnap]_vars

\* ---- update_max_amp / update_max_pw on any channel list -----------------------------
\* The channel lists a Stimulator can be constructed with: any names, repeated
\* names included, any maxima.
AnyChannels ==
    UNION {[1..n -> [name : EventChans, max_amp : Vals, max_pw : Vals]] :
              n \in 0..NumChannels}

\* A Stimulator, enabled or not, constructed with the channel list chs and
\* size_ = 0, whose scheduler holds one Event per entry of chs with the staged
\* values at MaxVal.
InitMax ==
    /\ \E chs \in AnyChannels, en \in BOOLEAN :
        /\ phase = "live"
        /\ enabled = en
        /\ hComm = IF en THEN "OPEN" ELSE "INVALID"
        /\ leaked = FALSE
        /\ board_init = en
        /\ channels = chs
        /\ num_events = 0
        /\ amplitudes = <<>> /\ pulsewidths = <<>>
        /\ max_amplitudes = <<>> /\ max_pulsewidths = <<>>
        /\ m_id = 0 /\ id_set = TRUE /\ m_enabled = FALSE
        /\ m_events = [i \in 1..Len(chs) |->
                          [ch |-> chs[i].name, id |-> i, amp |-> MaxVal, pw |-> MaxVal]]
        /\ last = Op("construct", FALSE, Bool(en), <<>>, {})
        /\ ops = 0
    /\ message = <<>> /\ codec = NoCall
    /\ drain = DrainIdle(0)
    /\ NoThreads

NextMax ==
    \/ UpdateMaxAmp
    \/ UpdateMaxPw

SpecMax == InitMax /\ [][NextMax]_vars

\* ---- the legacy Stimulator (src/src/FES/Core/Stimulator.cpp) ------------------------
\* Its flag `open` is kept in `enabled`, which is what its is_enabled() returns.
legacy_is_enabled == enabled

\* open_port assigns hComm what CreateFile (no sharing) returns.
legacy_open_port(h, lk, osOk) ==
    LET ok == osOk /\ ~PortHeld(h, lk)
    IN  [ok     |-> ok,
         hComm  |-> IF ok THEN "OPEN" ELSE "INVALID",
         leaked |-> lk \/ (h = "OPEN"),
         io     |-> <<Call("open", ok)>>,
         log    |-> IF ok THEN {"Info"} ELSE {"Error"}]

\* configure_port: GetCommState, SetCommState, SetCommTimeouts on the handle it
\* is given; on a handle that is not open the first of them fails.
legacy_configure_port(h, cfgOk) ==
    LET ok == h = "OPEN" /\ cfgOk
    IN  [ok |-> ok, io |-> <<Call("configure", ok)>>,
         log |-> IF ok THEN {} ELSE {"Error"}]

\* initialize_board: setup_channel for the channels in order, returning at the
\* first that fails; k = the number that succeed before it.
legacy_initialize_board(chs, k) ==
    [ok  |-> k = Len(chs),
     io  |-> [i \in 1..Min(k + 1, Len(chs)) |-> setup_channel(chs[i], i <= k)],
     log |-> IF k = Len(chs) THEN {"Info"} ELSE {}]

\* enable(): the three steps run one after the other whatever the earlier ones
\* returned, and the function ends without a return statement: the value the
\* caller receives (ret) is whatever the build leaves there.
legacy_enable(h, lk, chs, osOk, cfgOk, k, ret) ==
    LET o == legacy_open_port(h, lk, osOk)
        c == legacy_configure_port(o.hComm, cfgOk)
        b == legacy_initialize_board(chs, IF o.ok THEN k ELSE 0)
    IN  [open   |-> o.ok,
         hComm  |-> o.hComm,
         leaked |-> o.leaked,
         board_init |-> o.ok /\ b.ok,
         last   |-> Op("enable", FALSE, ret, o.io \o c.io \o b.io,
                       o.log \cup c.log \cup b.log)]

\* The values a bool function that ends without returning can hand back.
UndefinedBool == {"true", "false"}

\* What else the build can do at the end of enable(): trap there, or run on
\* into the code that follows it, ~Stimulator(), which calls CloseHandle on
\* whatever it takes for the handle (the call fails, hComm is untouched) and may
\* still log before the process dies.
LegacyTraps == {"trap", "fall_through"}

legacy_fall_through(rec, logged) ==
    [rec EXCEPT !.io = Append(@, Call("close", FALSE)),
                !.log = @ \cup (IF logged THEN {"Info"} ELSE {})]

\* The record of an enable() that did not return.
legacy_trapped(rec, trap, logged) ==
    IF trap = "fall_through" THEN legacy_fall_through(rec, logged) ELSE rec

\* The constructor: open(false), the channel list, enable() (its value unused).
\* enable() ends without returning a value there too: the constructor goes on
\* (outcome "return"), or the process dies inside the constructor in one of
\* the ways of LegacyTraps, after the transport calls of enable().
InitLegacy ==
    /\ \E n \in 0..NumChannels, osOk \in BOOLEAN, cfgOk \in BOOLEAN, k \in 0..NumChannels,
          outcome \in {"return"} \cup LegacyTraps, logged \in BOOLEAN :
        LET chs == SubSeq(InitChannels, 1, n)
            r   == legacy_enable("INVALID", FALSE, chs, osOk, cfgOk, Min(k, n),
                                 IF outcome = "return" THEN "void" ELSE "none")
        IN  /\ phase = (IF outcome = "return" THEN "live" ELSE "crashed")
            /\ enabled = r.open
            /\ hComm = r.hComm
            /\ leaked = r.leaked
            /\ board_init = r.board_init
            /\ channels = chs
            /\ last = [legacy_trapped(r.last, outcome, logged) EXCEPT !.op = "construct"]
    /\ num_events = 0
    /\ amplitudes = <<>> /\ pulsewidths = <<>>
    /\ max_amplitudes = <<>> /\ max_pulsewidths = <<>>
    /\ m_id = 0 /\ id_set = FALSE /\ m_enabled = FALSE /\ m_events = <<>>
    /\ ops = 0
    /\ message = <<>> /\ codec = NoCall
    /\ drain = DrainIdle(0)
    /\ NoThreads

LegacyEnable ==
    /\ phase = "live"
    /\ Tick
    /\ \E osOk \in BOOLEAN, cfgOk \in BOOLEAN, k \in 0..Len(channels) :
        \/ \E ret \in UndefinedBool :
            LET r == legacy_enable(hComm, leaked, channels, osOk, cfgOk, k, ret)
            IN  /\ enabled' = r.open
                /\ hComm' = r.hComm
                /\ leaked' = r.leaked
                /\ board_init' = r.board_init
                /\ last' = [r.last EXCEPT !.en = legacy_is_enabled]
                /\ UNCHANGED phase
        \/ \* the process dies at the end of the function
           \E trap \in LegacyTraps, logged \in BOOLEAN :
            LET r == legacy_enable(hComm, leaked, channels, osOk, cfgOk, k, "none")
            IN  /\ enabled' = r.open
                /\ hComm' = r.hComm
                /\ leaked' = r.leaked
                /\ board_init' = r.board_init
                /\ last' = [legacy_trapped(r.last, trap, logged) EXCEPT !.en = legacy_is_enabled]
                /\ phase' = "crashed"
    /\ UNCHANGED <<chanVars, snapVars, schedVars>>

\* create_scheduler hands the handle to Scheduler::create_scheduler and returns
\* its result.
LegacyCreateScheduler ==
    /\ phase = "live"
    /\ Tick
    /\ \E ok \in WriteOutcomes :
        LET r == Scheduler_create_scheduler(ok)
        IN  last' = Op("create_scheduler", legacy_is_enabled, Bool(r.ok), r.io, {})
    /\ UNCHANGED <<phase, stimVars, chanVars, snapVars, schedVars>>

\* ~Stimulator: CloseHandle(hComm) if is_enabled().
LegacyDestroy ==
    /\ phase = "live"
    /\ Tick
    /\ IF legacy_is_enabled
       THEN /\ hComm' = "CLOSED"
            /\ last' = Op("destroy", legacy_is_enabled, "void", <<Call("close", TRUE)>>,
                          {"Info"})
       ELSE /\ last' = Op("destroy", legacy_is_enabled, "void", <<>>, {})
            /\ UNCHANGED hComm
    /\ phase' = "destroyed"
    /\ UNCHANGED <<enabled, leaked, board_init, chanVars, snapVars, schedVars>>

NextLegacy ==
    \/ LegacyEnable
    \/ LegacyCreateScheduler
    \/ LegacyDestroy

SpecLegacy == InitLegacy /\ [][NextLegacy]_vars

\* ---- claims ----------------------------------------------------------------------
\* The event frames among the transport calls of the last operation.
IsEventFrame(e) == e.type = "event"
EventFrames == SelectSeq(last.io, IsEventFrame)
\* A frame of type t went out (its write succeeded).
Sent(io, t) == \E i \in 1..Len(io) : io[i].type = t /\ io[i].ok

\* C1: add_event / add_events called while no scheduler id has been assigned is
\* rejected: while set_id has not been called the scheduler holds no Event, no
\* add-event frame of an add_event / add_events call goes out, and add_event
\* returns false.
C1_AddEventNeedsId ==
    ~id_set =>
        /\ m_events = <<>>
        /\ last.op \in {"add_event", "add_events"} => ~Sent(last.io, "add")
        /\ last.op = "add_event" => last.ret = "false"

\* C2: for every Event, the staged amplitude does not exceed the current max
\* amplitude of the Event's Channel and the staged pulse width does not exceed
\* its current max pulse width.
C2_StagedWithinMax ==
    \A i \in 1..Len(m_events) :
        LET c == FirstChannel(channels, m_events[i].ch)
        IN  c # 0 =>
                /\ m_events[i].amp <= channels[c].max_amp
                /\ m_events[i].pw <= channels[c].max_pw

\* C3: one update() on an enabled Stimulator whose Scheduler holds N events
\* transmits exactly N frames, one per event in order, each addressed to that
\* event's device id (the ids being pairwise distinct) and carrying the event's
\* staged amplitude and pulse width.
C3_UpdateSendsOneFramePerEvent ==
    (last.op = "update" /\ last.en) =>
        /\ Len(Frames(last.io)) = Len(m_events)
        /\ \A i \in 1..Len(Frames(last.io)) :
            /\ Frames(last.io)[i].type = "event"
            /\ Frames(last.io)[i].ref = m_events[i].id
            /\ Frames(last.io)[i].amp = m_events[i].amp
            /\ Frames(last.io)[i].pw = m_events[i].pw
        /\ \A i, j \in 1..Len(Frames(last.io)) :
            i # j => Frames(last.io)[i].ref # Frames(last.io)[j].ref

\* C4: update() on an enabled Stimulator returns true exactly when every event's
\* transmission succeeded and false when at least one failed, and every event is
\* attempted exactly once whatever failed before it.
C4_UpdateAttemptsAllReportsAny ==
    (last.op = "update" /\ last.en) =>
        /\ last.ret \in {"true", "false"}
        /\ Len(EventFrames) = Len(m_events)
        /\ \A i \in 1..Len(EventFrames) : EventFrames[i].ref = m_events[i].id
        /\ (last.ret = "true") <=> (\A i \in 1..Len(EventFrames) : EventFrames[i].ok)

\* C5: enable() (also when run by the constructor) opens the port, configures it,
\* then sets up the channels in list order; it stops at the first step that
\* fails, so only the last transport call it made can have failed and no later
\* channel's setup frame is sent; it returns false and leaves the Stimulator not
\* enabled then, and returns true and leaves it enabled exactly when the open,
\* the configuration and every channel's setup succeeded.
C5_EnableStopsAtFirstFailure ==
    last.op \in {"enable", "construct"} =>
        LET io == last.io
            n  == Len(io)
        IN  /\ n >= 1 /\ n <= 2 + Len(channels)
            /\ io[1].type = "open"
            /\ n >= 2 => io[2].type = "configure"
            /\ \A i \in 3..n : io[i] = setup_channel(channels[i - 2], io[i].ok)
            /\ \A i \in 1..(n - 1) : io[i].ok
            /\ io[n].ok => n = 2 + Len(channels)
            /\ last.ret = Bool(enabled)
            /\ enabled <=> (io[n].ok /\ n = 2 + Len(channels))

\* Witness of C5: enable() failed at the first channel's setup frame while a
\* second channel was configured, and sent nothing after it.
C5_Witness ==
    /\ last.op = "enable"
    /\ Len(channels) >= 2
    /\ Len(last.io) = 3
    /\ last.io[3].type = "setup" /\ ~last.io[3].ok
    /\ last.ret = "false" /\ ~enabled

\* C6: between operations, is_enabled() holds exactly when the transport handle
\* is open and the board's channels have been initialised; after enable() (or
\* the constructor's enable()) returned false the handle is not open.
C6_EnabledMirrorsOpenHandle ==
    /\ enabled <=> (hComm = "OPEN" /\ board_init)
    /\ (last.op \in {"enable", "construct"} /\ last.ret = "false") => hComm # "OPEN"

\* The operations that test is_enabled() before they act.
C7_GuardedOps == {"begin", "update", "create_scheduler", "add_event", "add_events",
                  "set_amp", "write_pw"}

\* C7: while the Stimulator is not enabled, begin, update, create_scheduler,
\* add_event and add_events return false, and they and set_amp and write_pw log
\* an error, make no transport call (no frame, no read) and leave the scheduler
\* id, the event list and the staged values unchanged.
C7_DisabledRejects ==
    [][(~enabled /\ last'.op \in C7_GuardedOps) =>
            /\ last'.io = <<>>
            /\ "Error" \in last'.log
            /\ last'.op \notin {"set_amp", "write_pw"} => last'.ret = "false"
            /\ schedVars' = schedVars
            /\ phase' = phase]_vars

\* Witness of C7: update() was rejected on a Stimulator that is not enabled and
\* whose scheduler holds an event with a staged amplitude.
C7_Witness ==
    /\ ~enabled
    /\ last.op = "update" /\ last.ret = "false"
    /\ \E i \in 1..Len(m_events) : m_events[i].amp # 0

\* C8: disable() on an enabled Stimulator (here: one whose Scheduler has been
\* created and started) transmits a halt frame referencing the scheduler id
\* before it closes the handle, leaves the Scheduler not enabled and the
\* Stimulator not enabled.
C8_DisableHaltsBeforeClose ==
    [][(enabled /\ id_set /\ m_enabled /\ last'.op = "disable") =>
            /\ \E i, j \in 1..Len(last'.io) :
                /\ i < j
                /\ last'.io[i].type = "halt" /\ last'.io[i].sid = m_id /\ last'.io[i].ok
                /\ last'.io[j].type = "close"
            /\ ~m_enabled'
            /\ ~enabled']_vars

\* C9: disable() on a Stimulator that is not enabled makes no transport call (no
\* frame, no close), changes nothing of the Scheduler, the channels or the
\* handle, logs an informational message and leaves the Stimulator not enabled;
\* a disable() right after a disable() changes nothing.
C9_DisableWhenDisabledIsNoOp ==
    [][/\ (~enabled /\ last'.op = "disable") =>
            /\ last'.io = <<>>
            /\ last'.log = {"Info"}
            /\ ~enabled'
            /\ <<hComm, leaked, board_init>>' = <<hComm, leaked, board_init>>
            /\ schedVars' = schedVars
            /\ chanVars' = chanVars /\ snapVars' = snapVars
       /\ (last.op = "disable" /\ last'.op = "disable") =>
            /\ stimVars' = stimVars
            /\ schedVars' = schedVars
            /\ chanVars' = chanVars /\ snapVars' = snapVars]_vars

\* Witness of C9: disable() was called on a Stimulator that was not enabled while
\* its handle was open and its scheduler had been given an id.
C9_Witness ==
    /\ last.op = "disable" /\ ~last.en
    /\ hComm = "OPEN"
    /\ id_set

\* C10: create_scheduler on an enabled Stimulator returns false whenever the
\* device sends no reply (the read returns empty), and takes no byte of the empty
\* reply as the scheduler id.
C10_NoReplyIsFailure ==
    [][(enabled /\ last'.op = "create_scheduler" /\ phase' = "live"
            /\ \E i \in 1..Len(last'.io) : last'.io[i].type = "read" /\ ~last'.io[i].ok) =>
            /\ last'.ret = "false"
            /\ m_id' = m_id
            /\ id_set' = id_set]_vars

\* The Scheduler's id as its getter returns it (Scheduler::get_id).
Scheduler_get_id == m_id

\* C11: after create_scheduler on an enabled Stimulator whose read delivered a
\* reply with first payload byte b, Scheduler::get_id() is b, whatever byte b is
\* (0 included) and whether or not the request frame's write succeeded.
C11_IdIsFirstReplyByte ==
    (last.op = "create_scheduler" /\ last.en) =>
        \A i \in 1..Len(last.io) :
            (last.io[i].type = "read" /\ last.io[i].ok) =>
                /\ id_set
                /\ Scheduler_get_id = last.io[i].ref

\* Witness of C11: the device answered a create_scheduler with the largest byte
\* of the model and get_id() returns it.
C11_Witness ==
    /\ last.op = "create_scheduler" /\ last.en /\ last.ret = "true"
    /\ \E i \in 1..Len(last.io) :
        /\ last.io[i].type = "read" /\ last.io[i].ok
        /\ last.io[i].ref = MaxId
    /\ Scheduler_get_id = MaxId

\* C12: add_events on an enabled Stimulator calls add_event for the channels of
\* its list in list order; it stops at the first add_event that fails, so only
\* its last attempt can have failed and no later channel is attempted; the
\* events registered before stay registered, each successful attempt appends
\* the event of its channel, and it returns true exactly when every channel of
\* the list was attempted and succeeded.
C12_AddEventsStopsAtFirstFailure ==
    [][(enabled /\ last'.op = "add_events") =>
            LET chs == last'.arg
                io  == last'.io
                n   == Len(io)
                k   == Cardinality({i \in 1..n : io[i].ok})
            IN  /\ n <= Len(chs)
                /\ \A i \in 1..n : io[i].type = "add" /\ io[i].ref = chs[i]
                /\ \A i \in 1..(n - 1) : io[i].ok
                /\ n < Len(chs) => (n >= 1 /\ ~io[n].ok)
                /\ (last'.ret = "true") <=> (n = Len(chs) /\ k = n)
                /\ last'.ret \in {"true", "false"}
                /\ Len(m_events') = Len(m_events) + k
                /\ SubSeq(m_events', 1, Len(m_events)) = m_events
                /\ \A j \in 1..k : m_events'[Len(m_events) + j].ch = chs[j]]_vars

\* Witness of C12: add_events was given two channels, its first add_event
\* succeeded and its second failed; it returned false, made no further attempt
\* and the first channel's event is registered.
C12_Witness ==
    /\ last.op = "add_events" /\ last.en
    /\ Len(last.arg) = 2
    /\ Len(last.io) = 2 /\ last.io[1].ok /\ ~last.io[2].ok
    /\ last.ret = "false"
    /\ Len(m_events) >= 1 /\ m_events[Len(m_events)].ch = last.arg[1]

\* The sum of the first k bytes of a frame.
RECURSIVE C13_SumFirst(_, _)
C13_SumFirst(f, k) == IF k = 0 THEN 0 ELSE f[k] + C13_SumFirst(f, k - 1)

\* ((s & 0xFF) + (s >> 8)) XOR 0xFF, by arithmetic: the XOR complements the low
\* eight bits and keeps the others.
C13_Folded(s) ==
    LET v == (s % 256) + (s \div 256)
    IN  (v \div 256) * 256 + (255 - (v % 256))

\* C13: for a frame of length n >= 1, checksum(frame, n) is
\* ((s & 0xFF) + (s >> 8)) XOR 0xFF with s the sum of the first n - 1 bytes, and
\* write_message stores that value as the last byte of the frame (in the bytes
\* it transmits and in the caller's buffer).
C13_ChecksumStoredAsLastByte ==
    LET n == Len(codec.frame)
        v == C13_Folded(C13_SumFirst(codec.frame, n - 1))
    IN  /\ codec.fn = "checksum" => codec.csum = v
        /\ codec.fn = "write_message" =>
                /\ codec.bytes[n] = v
                /\ message[n] = v

\* C14: once write_message has stored the checksum in the last byte of a
\* buffer, computing the checksum of that buffer again gives the stored byte
\* (after the conversion to unsigned char that write_message applies), and a
\* second write_message of the same buffer transmits the same bytes and leaves
\* the buffer as it is.
C14_ChecksumIdempotent ==
    [][/\ (codec.fn = "write_message" /\ codec'.fn = "checksum") =>
            ToByte(codec'.csum) = message[Len(message)]
       /\ (codec.fn = "write_message" /\ codec'.fn = "write_message") =>
            /\ codec'.bytes = codec.bytes
            /\ message' = message]_vars

\* Witness of C14: write_message was applied to a buffer of three bytes or more
\* that already ended with its checksum, a byte no frame starts with: the buffer
\* had been through write_message before.
C14_Witness ==
    /\ codec.fn = "write_message"
    /\ Len(message) >= 3
    /\ codec.frame = message
    /\ codec.bytes = message
    /\ message[Len(message)] \notin ByteSample

\* C15: for n in 0..65535, int_to_twobytes(n) returns two bytes (high, low),
\* high = n div 256, low = n mod 256, high * 256 + low = n; 300 gives (1, 44),
\* 0 gives (0, 0) and 65535 gives (255, 255).
C15_TwoBytesHighLow ==
    (codec.fn = "int_to_twobytes" /\ codec.num \in 0..65535) =>
        /\ Len(codec.bytes) = 2
        /\ codec.bytes[1] \in 0..255 /\ codec.bytes[2] \in 0..255
        /\ codec.bytes[1] = codec.num \div 256
        /\ codec.bytes[2] = codec.num % 256
        /\ codec.bytes[1] * 256 + codec.bytes[2] = codec.num
        /\ codec.num = 300 => codec.bytes = <<1, 44>>
        /\ codec.num = 0 => codec.bytes = <<0, 0>>
        /\ codec.num = 65535 => codec.bytes = <<255, 255>>

\* Witness of C15: int_to_twobytes(300) returned (1, 44).
C15_Witness ==
    /\ codec.fn = "int_to_twobytes"
    /\ codec.num = 300
    /\ codec.bytes = <<1, 44>>

\* C16: write_message returns true exactly when the transport write succeeded;
\* the bytes handed to the transport are the caller's n bytes with the
\* checksum of the first n - 1 in the last position, the first n - 1 being
\* those of the caller unchanged.
C16_WriteMessageResultAndBytes ==
    codec.fn = "write_message" =>
        LET n == Len(codec.frame)
        IN  /\ codec.ret \in {"true", "false"}
            /\ (codec.ret = "true") <=> codec.ok
            /\ Len(codec.bytes) = n
            /\ codec.bytes[n] = ToByte(checksum(codec.frame, n))
            /\ \A i \in 1..(n - 1) : codec.bytes[i] = codec.frame[i]
            /\ codec.bytes = message

\* Witness of C16: the transport write of a frame of three bytes or more failed,
\* write_message returned false, and the bytes it had handed over end with a
\* checksum that differs from the byte the caller had left there.
C16_Witness ==
    /\ codec.fn = "write_message"
    /\ Len(codec.frame) >= 3
    /\ ~codec.ok /\ codec.ret = "false"
    /\ codec.bytes[Len(codec.frame)] # codec.frame[Len(codec.frame)]

\* C17: the value checksum() returns lies in 0..255 for every frame of bytes.
C17_ChecksumIsOneByte ==
    codec.fn = "checksum" => codec.csum \in 0..255

\* The reads among the transport calls of the last operation.
IsRead(e) == e.type = "read"
C18_Reads == SelectSeq(last.io, IsRead)

\* What holds of an update() that has returned after draining the replies: its
\* reads follow its event frames, each but the last delivered one byte and the
\* last delivered none, and the return value is the result of
\* Scheduler::update (true exactly when every event frame was written).
C18_DrainedUpdate ==
    (last.op = "update" /\ last.en) =>
        LET n == Len(C18_Reads)
            f == Len(EventFrames)
        IN  /\ n >= 1
            /\ Len(last.io) = f + n
            /\ \A i \in 1..f : last.io[i].type = "event"
            /\ \A i \in 1..(n - 1) : C18_Reads[i].ok
            /\ ~C18_Reads[n].ok
            /\ last.ret = Bool(\A i \in 1..f : EventFrames[i].ok)

\* C18: read_all reads one byte at a time and ends at the first read that
\* delivers no byte; neither an empty nor a failed read changes update()'s
\* return value, which is the result of Scheduler::update whatever was read;
\* and once the device stops sending, an update() that has reached read_all
\* returns.
C18_DrainTerminates ==
    /\ []C18_DrainedUpdate
    /\ (drain.pc = "reading") ~> (drain.pc = "idle")

\* Witness of C18: an update() returned true after reading one byte and then
\* failing a read (an error was logged); every event frame had been written.
C18_Witness ==
    /\ last.op = "update" /\ last.ret = "true"
    /\ Len(EventFrames) >= 1
    /\ Len(C18_Reads) = 2
    /\ "Error" \in last.log
    /\ drain.pc = "idle"

\* The four arrays of a version, laid out in the order the reader copies them.
C19_Flat(v) == v[1] \o v[2] \o v[3] \o v[4]

\* C19: a read of the four arrays by a thread running beside update() sees, at
\* every index of every array, the values of one version of the arrays: the
\* one from before a copy of update() or the one from after it, never a
\* mixture of the two.
C19_NoTornSnapshot ==
    rdr.pc = "done" => \E v \in rdr.seen : rdr.view = C19_Flat(v)

\* Witness of C19: a reader completed a read of two-entry arrays that hold a
\* staged amplitude and a lowered maximum, copied in by an update().
C19_Witness ==
    /\ rdr.pc = "done"
    /\ num_events = 2
    /\ \E i \in 1..2 : amplitudes[i] # 0
    /\ \E i \in 1..2 : max_amplitudes[i] # MaxVal
    /\ rdr.view = C19_Flat(Arrays)

\* The event at index i differs between events and its successor list next in
\* nothing but the named field.
C20_OnlyAmp(ev, nx, i) == nx[i] = [ev[i] EXCEPT !.amp = nx[i].amp]
C20_OnlyPw(ev, nx, i) == nx[i] = [ev[i] EXCEPT !.pw = nx[i].pw]

\* C20: set_amp and write_pw on an enabled Stimulator make no transport call;
\* the only thing they may change is the staged amplitude (set_amp) or pulse
\* width (write_pw) of one Event, the first one registered for its channel;
\* every other Event, the scheduler id, the enabled flags, the handle, the
\* channels and the arrays stay as they are; and command frames carrying
\* staged values are sent by update() only.
C20_StagingSendsNothing ==
    [][/\ (enabled /\ last'.op \in {"set_amp", "write_pw"}) =>
            /\ last'.io = <<>>
            /\ Len(m_events') = Len(m_events)
            /\ \A i \in 1..Len(m_events) :
                /\ last'.op = "set_amp" => C20_OnlyAmp(m_events, m_events', i)
                /\ last'.op = "write_pw" => C20_OnlyPw(m_events, m_events', i)
                /\ m_events'[i] # m_events[i] =>
                    /\ \A j \in 1..(i - 1) : m_events[j].ch # m_events[i].ch
                    /\ \A j \in 1..Len(m_events) : j # i => m_events'[j] = m_events[j]
            /\ <<m_id, id_set, m_enabled>>' = <<m_id, id_set, m_enabled>>
            /\ stimVars' = stimVars
            /\ chanVars' = chanVars /\ snapVars' = snapVars
            /\ phase' = phase
       /\ last'.op # "update" =>
            \A i \in 1..Len(last'.io) : last'.io[i].type # "event"]_vars

\* Witness of C20: set_amp staged an amplitude on a channel that two Events are
\* registered for; the first Event holds it, the second does not, and nothing
\* was transmitted.
C20_Witness ==
    /\ last.op = "set_amp" /\ last.en
    /\ last.io = <<>>
    /\ Len(m_events) = 2
    /\ m_events[1].ch = m_events[2].ch
    /\ m_events[1].amp = MaxVal /\ m_events[2].amp = 0

\* C21: update_max_amp(channel, m) (resp. update_max_pw) sets the max amplitude
\* (resp. max pulse width) of the first channel of the Stimulator's list whose
\* name is the given one and changes no other channel and no other field; when
\* no channel has that name it changes nothing and logs an error; either way
\* it makes no transport call and leaves every Event's staged amplitude and
\* pulse width, the arrays, the handle and the flags as they are.
C21_UpdateMaxFirstMatchOnly ==
    [][last'.op \in {"update_max_amp", "update_max_pw"} =>
            LET nm == last'.arg[1]
                m  == last'.arg[2]
                hit == {i \in 1..Len(channels) : channels[i].name = nm}
            IN  /\ last'.io = <<>>
                /\ schedVars' = schedVars
                /\ snapVars' = snapVars /\ stimVars' = stimVars /\ phase' = phase
                /\ Len(channels') = Len(channels)
                /\ hit = {} => (channels' = channels /\ "Error" \in last'.log)
                /\ hit # {} =>
                    /\ last'.log = {}
                    /\ \A i \in 1..Len(channels) :
                        IF i \in hit /\ \A j \in hit : i <= j
                        THEN /\ channels'[i].name = nm
                             /\ last'.op = "update_max_amp" =>
                                    channels'[i] = [channels[i] EXCEPT !.max_amp = m]
                             /\ last'.op = "update_max_pw" =>
                                    channels'[i] = [channels[i] EXCEPT !.max_pw = m]
                        ELSE channels'[i] = channels[i]]_vars

\* Witness of C21: update_max_amp lowered the maximum of the first of two
\* channels of the same name below the amplitude staged for its Event; the
\* second channel keeps its maximum and the Event its amplitude.
C21_Witness ==
    /\ last.op = "update_max_amp" /\ last.log = {}
    /\ Len(channels) = 2
    /\ channels[1].name = channels[2].name
    /\ channels[1].max_amp = 0 /\ channels[2].max_amp = MaxVal
    /\ Len(m_events) >= 1 /\ m_events[1].amp = MaxVal

\* C22: in the legacy Stimulator, an enable() whose open_port failed returns
\* false and makes no transport call after the failed open: no port
\* configuration, no channel setup frame.
C22_LegacyOpenFailureIsFatal ==
    (last.op = "enable" /\ ~last.io[1].ok) =>
        /\ last.ret = "false"
        /\ Len(last.io) = 1

\* C23: in every reachable state the number of Events in the Scheduler exceeds
\* neither num_events (the length of the four arrays) nor the number of
\* channels, so the snapshot loop of update() stays within bounds and no
\* update() on an enabled Stimulator aborts.
C23_SnapshotInBounds ==
    /\ Len(m_events) <= num_events
    /\ Len(m_events) <= Len(channels)
    /\ ~SnapshotOutOfBounds(m_events, num_events)
    /\ (last.op = "update" /\ last.en) => phase # "crashed"

\* C24: over any sequence of enable() and disable() calls no open handle is
\* lost (every handle opened and not yet closed is the one in hComm), and
\* enable() on an enabled Stimulator leaves it enabled.
C24_NoHandleLost ==
    [][/\ ~leaked'
       /\ (enabled /\ last'.op = "enable") => enabled']_vars

\* C25: a create_scheduler on an enabled Stimulator that returns false (the
\* create frame's write failed) leaves the Scheduler's id as it was.
C25_IdOnlyOnSuccess ==
    [][(enabled /\ last'.op = "create_scheduler" /\ last'.ret = "false") =>
            m_id' = m_id]_vars
====
